---- MODULE Spec2Model ----
(***************************************************************************)
(* gegechat: the chat server of server.c (chat.h for its constants).       *)
(* The server is one thread: a select() loop over the listening socket and *)
(* the handles of the occupied slots of fd[0..MAXCON-1].  The model keeps  *)
(* the server's variables (fd, nClient, afds, rfds, buffer, message, the   *)
(* loop index i), the place the loop is at (pc), and the peers: the        *)
(* connections waiting in the listen queue and, per open handle, the bytes *)
(* the client has written and whether it has closed its end.               *)
(***************************************************************************)
EXTENDS Integers, Sequences, FiniteSets, TLC

\* ------------------------------------------------------------ constants
MAXCHR == 256
MAXCON == 5
\* "OK" and "exit\n" as bytes
ACK_S == <<79, 75>>
MSG_C == <<101, 120, 105, 116, 10>>
\* the descriptor socket() returns in main: 0, 1, 2 are the standard streams
sockfd == 3

\* ------------------------------------------------------------ bounds
\* connections the clients open in a run of Spec
MaxClients == 3
\* writes, closes, signals and spontaneous socket errors in a run of Spec
MaxOps == 2
\* connections opened beyond the table's size in a run of SpecFull
Extra == 1
\* writes, closes, signals and spontaneous socket errors in a run of SpecFull
MaxOpsFull == 1
\* writes, closes, signals and spontaneous socket errors in a run of FairSpec
MaxOpsFair == 2
\* writes, closes, signals and spontaneous socket errors in a run of SpecRelay
MaxOpsRelay == 3
\* connections the clients open in a run of SpecRetry
MaxClientsRetry == 2
\* writes, closes, signals and spontaneous socket errors in a run of SpecRetry
MaxOpsRetry == 4
\* connections the clients open in a run of SpecPair
MaxClientsPair == 2
\* writes, closes, signals and spontaneous socket errors in a run of SpecPair
MaxOpsPair == 3
\* connections the clients open in a run of SpecMarker
MaxClientsMarker == 2
\* writes, closes, signals and spontaneous socket errors in a run of SpecMarker
MaxOpsMarker == 2

Slots == 0 .. (MAXCON - 1)
\* the descriptors accept() can return: the lowest free ones after sockfd
Handles == (sockfd + 1) .. (sockfd + MAXCON + 1)

\* ------------------------------------------------------------ bytes
RECURSIVE Dec(_)
\* printf's %d of a natural number, as bytes
Dec(n) == IF n < 10 THEN <<48 + n>> ELSE Dec(n \div 10) \o <<48 + (n % 10)>>

Take(s, n) == IF Len(s) <= n THEN s ELSE SubSeq(s, 1, n)
Drop(s, n) == IF Len(s) <= n THEN <<>> ELSE SubSeq(s, n + 1, Len(s))

\* the bytes of s before its first NUL
CStr(s) ==
    LET nul == {p \in 1 .. Len(s) : s[p] = 0}
    IN  IF nul = {} THEN s
        ELSE SubSeq(s, 1, (CHOOSE p \in nul : \A q \in nul : p <= q) - 1)

HasNul(s) == \E p \in 1 .. Len(s) : s[p] = 0

\* what printf's %s reads at buffer (char[MAXCHR], zeroed, then n bytes
\* received): up to the first NUL; when all MAXCHR bytes were written and
\* none is NUL, the read runs past the array into `beyond`.
StrOfBuffer(buf, beyond) ==
    IF Len(buf) = MAXCHR /\ ~HasNul(buf) THEN buf \o CStr(beyond) ELSE CStr(buf)

\* mutant: the sender label left out of the format
FormatMessageNoLabel(src, buf, beyond) ==
    Take(StrOfBuffer(buf, beyond), MAXCHR - 1)

\* snprintf(message, MAXCHR, "C%d: %s", i + 1, buffer): at most MAXCHR - 1 bytes
FormatMessage(src, buf, beyond) ==
    Take(<<67>> \o Dec(src + 1) \o <<58, 32>> \o StrOfBuffer(buf, beyond), MAXCHR - 1)

\* mutant: the whole payload compared with the marker
IsExitWhole(buf) == buf = MSG_C

\* strncmp(buffer, MSG_C, strlen(MSG_C)) == 0
IsExit(buf) == Len(buf) >= Len(MSG_C) /\ SubSeq(buf, 1, Len(MSG_C)) = MSG_C

\* send(fd[i], ACK_S, sizeof(ACK_S), 0): sizeof counts the terminating NUL
AckWire == ACK_S \o <<0>>

\* ------------------------------------------------------------ payloads
LongLine == [p \in 1 .. MAXCHR |-> IF p = MAXCHR THEN 10 ELSE 97]
Hello == <<104, 101, 108, 108, 111, 10>>
Payloads == {MSG_C, Hello, ACK_S, LongLine}

VARIABLES
    fd,        \* fd[k]: the handle in slot k, or -1
    nClient,   \* the live-client counter
    afds,      \* the watch set
    rfds,      \* the read set select() last filled
    buffer,    \* the bytes of the last recv
    message,   \* the last relayed message
    i,         \* main's loop index
    pc,        \* "select", "accept", "clients", or "dead" (process killed)
    pending,   \* connections completed by the kernel and not yet accepted
    conn,      \* per handle: the peer's written bytes, its state, and whether
               \* bytes of the server have reached it; or NoConn
    cleft,     \* connections the clients may still open
    left,      \* writes, closes, signals and socket errors that may still happen
    ev,        \* what the server's last step did; n: the payloads read so far;
               \* closed: the close() calls of the step, in order
    sent       \* the send() calls of the server's last step, in order

vars == <<fd, nClient, afds, rfds, buffer, message, i, pc, pending, conn,
          cleft, left, ev, sent>>

\* rcv: the numbers of the reads whose message was sent to it with success,
\* in the order of the sends
NoConn == [inq |-> <<>>, peer |-> "none", got |-> FALSE, rcv |-> <<>>]
NewConn == [inq |-> <<>>, peer |-> "open", got |-> FALSE, rcv |-> <<>>]

Occupied(f) == {k \in Slots : f[k] > -1}
OpenHandles(f) == {f[k] : k \in Occupied(f)}

\* ------------------------------------------------------------ Init
\* main() up to the loop: every slot empty, only sockfd watched
Start(clients, ops) ==
    /\ fd = [k \in Slots |-> -1]
    /\ nClient = 0
    /\ afds = {sockfd}
    /\ rfds = {}
    /\ buffer = <<>>
    /\ message = <<>>
    /\ i = 0
    /\ pc = "select"
    /\ pending = <<>>
    /\ conn = [h \in Handles |-> NoConn]
    /\ cleft = clients
    /\ left = ops
    /\ ev = [op |-> "init", slot |-> -1, res |-> "ok", intr |-> 0, n |-> 0,
             closed |-> <<>>]
    /\ sent = <<>>

Init == Start(MaxClients, MaxOps)

\* ------------------------------------------------------------ helpers
Min(S) == CHOOSE x \in S : \A y \in S : x <= y

\* accept() returns the lowest descriptor the process has not open
LowestFree(f) == Min(Handles \ OpenHandles(f))

\* mutant: the ready slots taken from the highest index down
NextReadyHighest(f, rf, from) ==
    LET c == {k \in Slots : k >= from /\ f[k] > -1 /\ f[k] \in rf}
    IN  IF c = {} THEN MAXCON ELSE CHOOSE k \in c : \A j \in c : j <= k

\* the for loop of main from index `from`: the first slot it acts on, the
\* slots it passes over being empty or not set in rfds; MAXCON when none is
NextReady(f, rf, from) ==
    LET c == {k \in Slots : k >= from /\ f[k] > -1 /\ f[k] \in rf}
    IN  IF c = {} THEN MAXCON ELSE Min(c)

\* the place of the loop after a step that leaves the slots f
AfterStep(f, rf, from) ==
    LET n == NextReady(f, rf, from)
    IN  IF n = MAXCON THEN [pc |-> "select", i |-> 0] ELSE [pc |-> "clients", i |-> n]

\* what select() would report readable
Readable(h) == IF h = sockfd THEN pending # <<>>
               ELSE conn[h].inq # <<>> \/ conn[h].peer = "closed"
\* descriptors of the watch set that are closed
Stale == afds \ ({sockfd} \cup OpenHandles(fd))

\* ------------------------------------------------------------ freeConnections
\* fd[x] as the scan reads it: index MAXCON is past the array and reads `oob`
SlotAt(f, oob, x) == IF x \in Slots THEN f[x] ELSE oob

RECURSIVE FreeScan(_, _, _)
\* while ((fd[fdlib] >= 0) && (fdlib < MAXCON)) fdlib++;
FreeScan(f, oob, fdlib) ==
    IF SlotAt(f, oob, fdlib) >= 0 /\ fdlib < MAXCON
    THEN FreeScan(f, oob, fdlib + 1)
    ELSE fdlib

RECURSIVE ScanReads(_, _, _)
\* the indices x at which the scan from fdlib evaluates fd[x]: the loop's
\* condition reads fd[fdlib] before it tests fdlib < MAXCON
ScanReads(f, oob, fdlib) ==
    {fdlib} \cup (IF SlotAt(f, oob, fdlib) >= 0 /\ fdlib < MAXCON
                  THEN ScanReads(f, oob, fdlib + 1)
                  ELSE {})

\* mutant: a full table answered with its last slot
freeConnectionsLastSlot(f, oob) ==
    LET fdlib == FreeScan(f, oob, 0)
    IN  IF fdlib < MAXCON THEN fdlib ELSE MAXCON - 1

\* mutant: the scan's answer replaced by the highest empty slot
freeConnectionsHighest(f, oob) ==
    LET free == {k \in Slots : f[k] < 0}
    IN  IF free = {} THEN -1 ELSE CHOOSE k \in free : \A j \in free : j <= k

freeConnections(f, oob) ==
    LET fdlib == FreeScan(f, oob, 0)
    IN  IF fdlib < MAXCON THEN fdlib ELSE -1

\* ------------------------------------------------------------ dispatch
\* Results of one send() to a recipient: "ok"; "eintr_ok", "eintr_fail": EINTR
\* and the retry's result; "epipe": EPIPE or ECONNRESET returned; "other":
\* another error; "sigpipe": the write on a broken connection raises SIGPIPE,
\* whose disposition main never changes, and the process is killed;
\* "eintr_sigpipe": EINTR, and the retry raises SIGPIPE.
\* A connection is broken once the peer has closed and has reset it: the
\* peer's close alone leaves the server's sending side open, the reset needs
\* bytes of the server at the peer, unread when it closes or arriving after.
Broken(c) == c.peer = "closed" /\ c.got
SendFail == {"eintr_ok", "eintr_fail", "eintr_sigpipe", "other", "epipe", "sigpipe"}
Budgeted == {"eintr_ok", "eintr_fail", "eintr_sigpipe", "other", "eintr"}

Rec(k, kind, bytes, res) == [to |-> k, kind |-> kind, bytes |-> bytes, res |-> res]

\* close(fd[k]) in the state st: the slot, the value passed to close, whether
\* it is an open descriptor then, and the number of sends made before it
Closing(st, k) ==
    [slot |-> k, h |-> st.fd[k],
     open |-> st.fd[k] \in Handles /\ st.conn[st.fd[k]].peer # "none",
     after |-> Len(st.sent)]

\* mutant: the recipient is dropped and nClient is left as it was
DropRecipientKeepCount(st, k) ==
    [st EXCEPT !.closed = Append(st.closed, Closing(st, k)),
               !.conn = [st.conn EXCEPT ![st.fd[k]] = NoConn],
               !.fd = [st.fd EXCEPT ![k] = -1]]

\* mutant: the recipient's handle is closed and its slot is left occupied
DropRecipientKeepSlot(st, k) ==
    [st EXCEPT !.closed = Append(st.closed, Closing(st, k)),
               !.conn = [st.conn EXCEPT ![st.fd[k]] = NoConn],
               !.nClient = st.nClient - 1]

\* mutant: the table compacted on a drop, the highest later slot moved into
\* the slot emptied
DropRecipientCompact(st, k) ==
    LET later == {m \in Slots : m > k /\ st.fd[m] > -1}
        top == CHOOSE m \in later : \A j \in later : j <= m
    IN  [st EXCEPT !.closed = Append(st.closed, Closing(st, k)),
                   !.conn = [st.conn EXCEPT ![st.fd[k]] = NoConn],
                   !.fd = IF later = {} THEN [st.fd EXCEPT ![k] = -1]
                          ELSE [st.fd EXCEPT ![k] = st.fd[top], ![top] = -1],
                   !.nClient = st.nClient - 1]

\* close(fd[k]); fd[k] = -1; nClient--;
DropRecipient(st, k) ==
    [st EXCEPT !.closed = Append(st.closed, Closing(st, k)),
               !.conn = [st.conn EXCEPT ![st.fd[k]] = NoConn],
               !.fd = [st.fd EXCEPT ![k] = -1],
               !.nClient = st.nClient - 1]

\* the body of dispatch's for loop at recipient k, the send resulting in o
DispatchSend(st, k, msg, o) ==
    LET log(res) == [st EXCEPT !.sent = Append(st.sent, Rec(k, "relay", msg, res))]
        log2(r1, r2) == [st EXCEPT !.sent =
                            st.sent \o <<Rec(k, "relay", msg, r1), Rec(k, "relay", msg, r2)>>]
        reached(s) == [s EXCEPT !.conn = [s.conn EXCEPT ![s.fd[k]].got = TRUE,
                                                        ![s.fd[k]].rcv = Append(@, s.n)]]
    IN  CASE o = "ok" -> reached(log("ok"))
          [] o = "eintr_ok" -> reached(log2("eintr", "ok"))
          [] o = "eintr_fail" -> DropRecipient(log2("eintr", "fail"), k)
          [] o = "epipe" -> DropRecipient(log("epipe"), k)
          [] o = "other" -> DropRecipient(log("other"), k)
          [] o = "sigpipe" -> [log("sigpipe") EXCEPT !.killed = TRUE]
          [] o = "eintr_sigpipe" -> [log2("eintr", "sigpipe") EXCEPT !.killed = TRUE]

RECURSIVE DispatchLoop(_, _, _, _, _)
\* for (k = 0; k < MAXCON; k++) if ((k != i) && (fd[k] > -1)) ...
DispatchLoop(st, src, msg, oc, k) ==
    IF k >= MAXCON \/ st.killed THEN st
    ELSE IF k # src /\ st.fd[k] > -1
         THEN DispatchLoop(DispatchSend(st, k, msg, IF k \in DOMAIN oc THEN oc[k] ELSE "ok"),
                           src, msg, oc, k + 1)
         ELSE DispatchLoop(st, src, msg, oc, k + 1)

dispatch(st, src, msg, oc) == DispatchLoop(st, src, msg, oc, 0)

\* ------------------------------------------------------------ communication
\* mutant: out = -1 after every read, not only after the termination marker
communicationOutAlways(st, src, rc, oc, ao, beyond) ==
    LET h == st.fd[src]
        buf == Take(st.conn[h].inq, MAXCHR)
        s1 == [st EXCEPT !.buffer = buf, !.n = st.n + 1,
                         !.conn = [st.conn EXCEPT ![h].inq = Drop(st.conn[h].inq, MAXCHR)]]
        msg == FormatMessage(src, buf, beyond)
        s2 == IF s1.nClient > 1
              THEN dispatch([s1 EXCEPT !.message = msg], src, msg, oc)
              ELSE s1
        s3 == IF IsExit(buf) /\ ~s2.killed
              THEN [s2 EXCEPT !.sent = Append(s2.sent, Rec(src, "ack", AckWire, ao)),
                              !.killed = (ao = "sigpipe"),
                              !.out = -1]
              ELSE [s2 EXCEPT !.out = -1]
    IN  CASE rc = "data" -> s3
          [] rc = "eof" -> [st EXCEPT !.buffer = <<>>, !.out = -1]
          [] rc = "err" -> [st EXCEPT !.buffer = <<>>, !.out = -1]

\* mutant: dispatch sends what message held before, without formatting the
\* payload just read
communicationStaleMessage(st, src, rc, oc, ao, beyond) ==
    LET h == st.fd[src]
        buf == Take(st.conn[h].inq, MAXCHR)
        s1 == [st EXCEPT !.buffer = buf, !.n = st.n + 1,
                         !.conn = [st.conn EXCEPT ![h].inq = Drop(st.conn[h].inq, MAXCHR)]]
        s2 == IF s1.nClient > 1
              THEN dispatch(s1, src, st.message, oc)
              ELSE s1
        s3 == IF IsExit(buf) /\ ~s2.killed
              THEN [s2 EXCEPT !.sent = Append(s2.sent, Rec(src, "ack", AckWire, ao)),
                              !.killed = (ao = "sigpipe"),
                              !.out = -1]
              ELSE s2
    IN  CASE rc = "data" -> s3
          [] rc = "eof" -> [st EXCEPT !.buffer = <<>>, !.out = -1]
          [] rc = "err" -> [st EXCEPT !.buffer = <<>>, !.out = -1]

\* mutant: the acknowledgement sent before the payload is relayed
communicationAckFirst(st, src, rc, oc, ao, beyond) ==
    LET h == st.fd[src]
        buf == Take(st.conn[h].inq, MAXCHR)
        s1 == [st EXCEPT !.buffer = buf, !.n = st.n + 1,
                         !.conn = [st.conn EXCEPT ![h].inq = Drop(st.conn[h].inq, MAXCHR)]]
        msg == FormatMessage(src, buf, beyond)
        s2 == IF IsExit(buf)
              THEN [s1 EXCEPT !.sent = Append(s1.sent, Rec(src, "ack", AckWire, ao)),
                              !.killed = (ao = "sigpipe"),
                              !.out = -1]
              ELSE s1
        s3 == IF s2.nClient > 1 /\ ~s2.killed
              THEN dispatch([s2 EXCEPT !.message = msg], src, msg, oc)
              ELSE s2
    IN  CASE rc = "data" -> s3
          [] rc = "eof" -> [st EXCEPT !.buffer = <<>>, !.out = -1]
          [] rc = "err" -> [st EXCEPT !.buffer = <<>>, !.out = -1]

\* rc: recv's result ("data", "eof", "err"); oc: the results of dispatch's
\* sends; ao: the result of the acknowledgement's send; beyond: the bytes after
\* buffer in memory.  The result: the state, and out (0, or -1: close the slot).
communication(st, src, rc, oc, ao, beyond) ==
    LET h == st.fd[src]
        buf == Take(st.conn[h].inq, MAXCHR)
        s1 == [st EXCEPT !.buffer = buf, !.n = st.n + 1,
                         !.conn = [st.conn EXCEPT ![h].inq = Drop(st.conn[h].inq, MAXCHR)]]
        msg == FormatMessage(src, buf, beyond)
        s2 == IF s1.nClient > 1
              THEN dispatch([s1 EXCEPT !.message = msg], src, msg, oc)
              ELSE s1
        s3 == IF IsExit(buf) /\ ~s2.killed
              THEN [s2 EXCEPT !.sent = Append(s2.sent, Rec(src, "ack", AckWire, ao)),
                              !.killed = (ao = "sigpipe"),
                              !.out = -1]
              ELSE s2
    IN  CASE rc = "data" -> s3
          [] rc = "eof" -> [st EXCEPT !.buffer = <<>>, !.out = -1]
          [] rc = "err" -> [st EXCEPT !.buffer = <<>>, !.out = -1]

\* mutant: the release without FD_CLR
ReleaseIfOutKeepWatch(st, src) ==
    IF st.out < 0 /\ ~st.killed
    THEN [st EXCEPT !.closed = Append(st.closed, Closing(st, src)),
                    !.conn = [st.conn EXCEPT ![st.fd[src]] = NoConn],
                    !.fd = [st.fd EXCEPT ![src] = -1],
                    !.nClient = st.nClient - 1]
    ELSE st

\* main, lines 254-261: if (communication(fd, i) < 0) release slot i
ReleaseIfOut(st, src) ==
    IF st.out < 0 /\ ~st.killed
    THEN [st EXCEPT !.afds = st.afds \ {st.fd[src]},
                    !.closed = Append(st.closed, Closing(st, src)),
                    !.conn = [st.conn EXCEPT ![st.fd[src]] = NoConn],
                    !.fd = [st.fd EXCEPT ![src] = -1],
                    !.nClient = st.nClient - 1]
    ELSE st

\* ------------------------------------------------------------ the server loop
Event(op, slot, res, intr) ==
    [op |-> op, slot |-> slot, res |-> res, intr |-> intr, n |-> ev.n, closed |-> <<>>]

\* main, lines 221-227: rfds = afds; select().  A successful select leaves in
\* rfds the readable descriptors and blocks while there is none; on an error
\* (EBADF: a closed descriptor in the set; EINTR: a signal while it waits)
\* it leaves rfds as copied, main prints the error and goes on.
SelectResult(res, rf) ==
    /\ rfds' = rf
    /\ ev' = Event("select", -1, res, 0)
    /\ sent' = <<>>
    /\ LET nxt == AfterStep(fd, rf, 0)
       IN  IF sockfd \in rf THEN pc' = "accept" /\ i' = 0
           ELSE pc' = nxt.pc /\ i' = nxt.i
    /\ UNCHANGED <<fd, nClient, afds, buffer, message, pending, conn, cleft>>

Select ==
    /\ pc = "select"
    /\ LET ready == {h \in afds : Readable(h)}
       IN  \/ Stale # {} /\ SelectResult("ebadf", afds) /\ UNCHANGED left
           \/ Stale = {} /\ ready # {} /\ SelectResult("ok", ready) /\ UNCHANGED left
           \/ Stale = {} /\ ready = {} /\ left > 0
              /\ SelectResult("eintr", afds) /\ left' = left - 1

\* values the word after the array fd may hold
OobValues == {-1, 0}

\* main, lines 230-248, entered with sockfd set in rfds.  accept() blocks
\* while no connection is pending.
NewConnection ==
    /\ pc = "accept"
    /\ \E oob \in OobValues :
        LET slot == freeConnections(fd, oob)
            newsockfd == LowestFree(fd)
            accepted == [fd EXCEPT ![slot] = newsockfd]
        IN  \/ /\ slot < 0
               /\ ev' = Event("accept", -1, "full", 0)
               /\ pc' = AfterStep(fd, rfds, 0).pc /\ i' = AfterStep(fd, rfds, 0).i
               /\ UNCHANGED <<fd, nClient, afds, pending, conn, left>>
            \/ /\ slot >= 0 /\ pending # <<>>
               /\ fd' = accepted
               /\ afds' = afds \cup {newsockfd}
               /\ nClient' = nClient + 1
               /\ conn' = [conn EXCEPT ![newsockfd] = Head(pending)]
               /\ pending' = Tail(pending)
               /\ ev' = Event("accept", slot, "ok", 0)
               /\ pc' = AfterStep(accepted, rfds, 0).pc /\ i' = AfterStep(accepted, rfds, 0).i
               /\ UNCHANGED left
            \/ /\ slot >= 0 /\ left > 0
               /\ left' = left - 1
               /\ ev' = Event("accept", slot, "err", 0)
               /\ pc' = AfterStep(fd, rfds, 0).pc /\ i' = AfterStep(fd, rfds, 0).i
               /\ UNCHANGED <<fd, nClient, afds, pending, conn>>
    /\ sent' = <<>>
    /\ UNCHANGED <<rfds, buffer, message, cleft>>

\* the results recv() on handle h can give now; none: it blocks
RecvChoices(h) ==
    IF conn[h].inq # <<>> THEN {"data"}
    ELSE IF conn[h].peer = "closed" THEN {"eof", "err"} ELSE {}

\* the results of the recv() calls of one communication, in order: a signal
\* may interrupt the first call
RecvSeqs(h) ==
    {<<r>> : r \in RecvChoices(h)}
        \cup (IF left > 0 THEN {<<"eintr", r>> : r \in RecvChoices(h)} ELSE {})

\* mutant: an interrupted recv taken as an error, not retried
RecvLoopNoRetry(rs) == IF Head(rs) = "eintr" THEN "err" ELSE Head(rs)

RECURSIVE RecvLoop(_)
\* communication, lines 132-180: do { recv } while (bytes_received < 0 &&
\* errno == EINTR): the result of the first call that is not interrupted
RecvLoop(rs) == IF Head(rs) = "eintr" THEN RecvLoop(Tail(rs)) ELSE Head(rs)

\* the results the sends of one dispatch can give: a function from the
\* recipients whose send fails to how it fails
DispatchChoices(src, rc) ==
    LET R == IF rc = "data" /\ nClient > 1 THEN Occupied(fd) \ {src} ELSE {}
        closed == {k \in R : Broken(conn[fd[k]])}
    IN  UNION {{oc \in [F -> SendFail] :
                    /\ \A k \in F : oc[k] \in {"epipe", "sigpipe", "eintr_sigpipe"}
                                        => k \in closed
                    /\ Cardinality({k \in F : oc[k] \in Budgeted}) <= left}
               : F \in {G \in SUBSET R : Cardinality(G) <= left + Cardinality(closed)}}

AckChoices(h, rc) ==
    IF rc = "data" /\ IsExit(Take(conn[h].inq, MAXCHR))
    THEN {"ok"} \cup (IF Broken(conn[h]) THEN {"epipe", "sigpipe"} ELSE {})
                \cup (IF left > 0 THEN {"eintr", "other"} ELSE {})
    ELSE {"ok"}

BeyondChoices(h, rc) ==
    IF rc = "data" /\ Len(conn[h].inq) >= MAXCHR /\ ~HasNul(Take(conn[h].inq, MAXCHR))
    THEN {<<>>, <<33>>} ELSE {<<>>}

\* the server's variables as communication and dispatch see them
ServerState ==
    [fd |-> fd, nClient |-> nClient, afds |-> afds, conn |-> conn,
     buffer |-> buffer, message |-> message, sent |-> <<>>, closed |-> <<>>,
     n |-> ev.n, killed |-> FALSE, out |-> 0]

\* main, lines 251-264, at a slot i that is occupied and set in rfds:
\* communication(fd, i), and the release of the slot when it returns -1
ClientStep ==
    /\ pc = "clients"
    /\ \E rs \in RecvSeqs(fd[i]) :
       \E rc \in {RecvLoop(rs)} :
       \E intr \in {Len(rs) - 1} :
       \E oc \in DispatchChoices(i, rc) :
       \E ao \in AckChoices(fd[i], rc) :
       \E beyond \in BeyondChoices(fd[i], rc) :
        \E st1 \in {ReleaseIfOut(communication(ServerState, i, rc, oc, ao, beyond), i)} :
        \E nxt \in {AfterStep(st1.fd, rfds, i + 1)} :
        \E cost \in {intr + Cardinality({p \in 1 .. Len(st1.sent) :
                                            st1.sent[p].res \in Budgeted})} :
            /\ cost <= left
            /\ left' = left - cost
            /\ fd' = st1.fd
            /\ nClient' = st1.nClient
            /\ afds' = st1.afds
            /\ conn' = st1.conn
            /\ buffer' = st1.buffer
            /\ message' = st1.message
            /\ sent' = st1.sent
            /\ ev' = [Event("comm", i, rc, intr) EXCEPT !.n = st1.n,
                                                        !.closed = st1.closed]
            /\ pc' = IF st1.killed THEN "dead" ELSE nxt.pc
            /\ i' = IF st1.killed THEN i ELSE nxt.i
    /\ UNCHANGED <<rfds, pending, cleft>>

\* ------------------------------------------------------------ the clients
\* connect(): the kernel completes the connection and queues it for accept
ClientConnect ==
    /\ pc # "dead"
    /\ cleft > 0
    /\ Len(pending) < MAXCON
    /\ pending' = Append(pending, NewConn)
    /\ cleft' = cleft - 1
    /\ UNCHANGED <<fd, nClient, afds, rfds, buffer, message, i, pc, conn,
                   left, ev, sent>>

\* the client of handle h writes the bytes p: they join the stream the
\* server reads from
ClientSend(h, p) ==
    /\ pc # "dead"
    /\ conn[h].peer = "open"
    /\ left > 0
    /\ conn' = [conn EXCEPT ![h].inq = @ \o p]
    /\ left' = left - 1
    /\ UNCHANGED <<fd, nClient, afds, rfds, buffer, message, i, pc, pending,
                   cleft, ev, sent>>

\* the client of handle h closes its socket, or its process ends
ClientClose(h) ==
    /\ pc # "dead"
    /\ conn[h].peer = "open"
    /\ left > 0
    /\ conn' = [conn EXCEPT ![h].peer = "closed"]
    /\ left' = left - 1
    /\ UNCHANGED <<fd, nClient, afds, rfds, buffer, message, i, pc, pending,
                   cleft, ev, sent>>

ServerStep == Select \/ NewConnection \/ ClientStep

Next ==
    \/ Select
    \/ NewConnection
    \/ ClientStep
    \/ ClientConnect
    \/ \E h \in Handles, p \in Payloads : ClientSend(h, p)
    \/ \E h \in Handles : ClientClose(h)

Spec == Init /\ [][Next]_vars

\* a run in which the clients open more connections than the table holds
InitFull == Start(MAXCON + Extra, MaxOpsFull)
SpecFull == InitFull /\ [][Next]_vars

\* the same with the server scheduled: a server step that stays possible is
\* taken (the process is not starved; it stops only where a call blocks)
InitFair == Start(MAXCON + Extra, MaxOpsFair)
FairSpec == InitFair /\ [][Next]_vars /\ WF_vars(ServerStep)

\* a run long enough for a client to write again after a relay has failed
InitRelay == Start(MaxClients, MaxOpsRelay)
SpecRelay == InitRelay /\ [][Next]_vars
FairSpecRelay == InitRelay /\ [][Next]_vars /\ WF_vars(ServerStep)

\* a run of two clients long enough for a send to be interrupted on a
\* connection that was used and then closed
InitRetry == Start(MaxClientsRetry, MaxOpsRetry)
SpecRetry == InitRetry /\ [][Next]_vars

\* a run of two clients in which one writes, the other closes and a send fails
InitPair == Start(MaxClientsPair, MaxOpsPair)
SpecPair == InitPair /\ [][Next]_vars

\* a run in which the clients write the termination marker and lines close
\* to it: bytes after it, another case, no newline, a byte before it
ExitTrailing == MSG_C \o <<120>>
ExitUpper == <<69, 88, 73, 84, 10>>
ExitNoNewline == <<101, 120, 105, 116>>
ExitAfter == <<32>> \o MSG_C
MarkerPayloads == {MSG_C, ExitTrailing, ExitUpper, ExitNoNewline, ExitAfter}

NextMarker ==
    \/ Select
    \/ NewConnection
    \/ ClientStep
    \/ ClientConnect
    \/ \E h \in Handles, p \in MarkerPayloads : ClientSend(h, p)
    \/ \E h \in Handles : ClientClose(h)

InitMarker == Start(MaxClientsMarker, MaxOpsMarker)
SpecMarker == InitMarker /\ [][NextMarker]_vars

\* ------------------------------------------------------------ claims
\* the sends of the last step that are relays / acknowledgements
Relays(log) == {p \in 1 .. Len(log) : log[p].kind = "relay"}
Acks(log) == {p \in 1 .. Len(log) : log[p].kind = "ack"}
AllOk(log) == \A p \in 1 .. Len(log) : log[p].res = "ok"
\* the label "C<N>: " of slot k, N = k + 1
Label(k) == <<67>> \o Dec(k + 1) \o <<58, 32>>

\* A step is a server step exactly when it changes ev: the clients' steps
\* leave ev alone, and two server steps in a row differ in op or in slot.
CommStep == pc = "clients" /\ ev' # ev
AcceptStep == pc = "accept" /\ ev' # ev

\* C1: after every event of the server loop the number of slots holding a
\* handle equals the live-client counter nClient.
C1_CountMatches == Cardinality(Occupied(fd)) = nClient

\* C1's case: dispatch has just removed a recipient whose send failed
C1_Witness ==
    /\ ev.op = "comm" /\ ev.res = "data" /\ pc # "dead"
    /\ \E p \in Relays(sent) : sent[p].res \in {"fail", "epipe", "other"}
                               /\ fd[sent[p].to] = -1
    /\ nClient >= 1

\* C3: with exactly one client connected, a payload that is not taken as the
\* termination marker (it does not begin with "exit\n", the comparison the
\* spec describes) causes no send at all, no error, and leaves the slot table,
\* the live count and the watch set as they were.
C3_SingleClientFrame ==
    [][(CommStep /\ nClient = 1 /\ ev'.res = "data" /\ ~IsExit(buffer'))
        => (/\ sent' = <<>>
            /\ fd' = fd /\ nClient' = nClient /\ afds' = afds
            /\ pc' # "dead")]_vars

\* C3's case: the only client's payload was read and the slot is still its
C3_Witness ==
    /\ ev.op = "comm" /\ ev.res = "data"
    /\ buffer # <<>> /\ ~IsExit(buffer)
    /\ nClient = 1 /\ Occupied(fd) = {ev.slot}
    /\ sent = <<>>

\* C5: the acknowledgement goes only to the slot whose termination marker was
\* just read: a send whose bytes are the acknowledgement marker (with or
\* without the NUL the server adds) is the acknowledgement of the step's own
\* slot, and every relayed message starts with the sender label, so none
\* equals the marker.
C5_AckOnlyToSender ==
    \A p \in 1 .. Len(sent) :
        /\ sent[p].bytes \in {ACK_S, AckWire}
             => /\ ev.op = "comm" /\ ev.res = "data" /\ IsExit(buffer)
                /\ sent[p].kind = "ack" /\ sent[p].to = ev.slot
        /\ sent[p].kind = "ack" => sent[p].bytes \in {ACK_S, AckWire}
        /\ sent[p].kind = "relay"
             => /\ sent[p].to # ev.slot
                /\ Take(sent[p].bytes, Len(Label(ev.slot))) = Label(ev.slot)

\* C5's case: a client sent the marker while another was connected: the other
\* got the relayed line, the sender the acknowledgement
C5_Witness ==
    /\ ev.op = "comm" /\ IsExit(buffer)
    /\ \E p \in Relays(sent), q \in Acks(sent) :
          sent[p].res = "ok" /\ sent[q].res = "ok" /\ sent[p].to # sent[q].to

\* C6: with all MAXCON slots occupied and the listening socket reported
\* ready, the new-connection step calls no accept and changes no slot, nor
\* the live count, nor the watch set; the pending connection stays queued and
\* the loop goes on.
C6_FullTableFrame ==
    [][(AcceptStep /\ Occupied(fd) = Slots)
        => (/\ ev'.op = "accept" /\ ev'.res = "full"
            /\ fd' = fd /\ nClient' = nClient /\ afds' = afds
            /\ pending' = pending /\ conn' = conn
            /\ pc' \in {"select", "clients"})]_vars

\* C6's case: the step ran on a full table with a connection waiting
C6_Witness ==
    /\ ev.op = "accept" /\ ev.res = "full"
    /\ Occupied(fd) = Slots /\ nClient = MAXCON
    /\ pending # <<>>

\* C8: when the read on slot i returns zero bytes, slot i is released in that
\* step (no send is made), every other occupied slot keeps its handle and
\* stays watched; and a payload read from a slot while the other clients'
\* connections are up is relayed to each of the other occupied slots and to
\* no other.
C8_AbruptClose ==
    [][/\ (CommStep /\ ev'.res = "eof")
            => (/\ fd' = [fd EXCEPT ![i] = -1]
                /\ afds' = afds \ {fd[i]}
                /\ nClient' = nClient - 1
                /\ sent' = <<>>
                /\ pc' # "dead"
                /\ \A k \in Occupied(fd) \ {i} : fd'[k] = fd[k] /\ fd[k] \in afds')
       /\ (CommStep /\ ev'.res = "data" /\ nClient > 1
             /\ \A k \in Occupied(fd) \ {i} : conn[fd[k]].peer = "open")
            => (/\ \A k \in Occupied(fd) \ {i} : \E p \in Relays(sent') : sent'[p].to = k
                /\ \A p \in Relays(sent') : sent'[p].to \in Occupied(fd) \ {i})]_vars

\* C8's case: a zero-byte read released a slot while two other clients stay
C8_Witness ==
    /\ ev.op = "comm" /\ ev.res = "eof"
    /\ fd[ev.slot] = -1
    /\ Cardinality(Occupied(fd)) >= 2
    /\ \A k \in Occupied(fd) : fd[k] \in afds

\* C2: for every payload read from slot i while more than one client is
\* connected, all sends succeeding, the payload prefixed with "C<i+1>: " is
\* sent exactly once to every other occupied slot, to no empty slot and not
\* to slot i.
C2_RelayToOthers ==
    [][(CommStep /\ ev'.res = "data" /\ nClient > 1 /\ AllOk(sent'))
        => (/\ \A k \in Occupied(fd) \ {i} :
                  Cardinality({p \in Relays(sent') : sent'[p].to = k}) = 1
            /\ \A p \in Relays(sent') :
                  /\ sent'[p].to \in Occupied(fd) \ {i}
                  /\ sent'[p].bytes = Label(i) \o buffer')]_vars

\* What holds of C2: the same for the payloads that fit the message buffer
\* with their label and hold no NUL; the recipients are right for all.
C2_ShortPayloads ==
    [][(CommStep /\ ev'.res = "data" /\ nClient > 1 /\ AllOk(sent'))
        => (/\ \A k \in Occupied(fd) \ {i} :
                  Cardinality({p \in Relays(sent') : sent'[p].to = k}) = 1
            /\ \A p \in Relays(sent') :
                  /\ sent'[p].to \in Occupied(fd) \ {i}
                  /\ (Len(Label(i)) + Len(buffer') < MAXCHR /\ ~HasNul(buffer'))
                        => sent'[p].bytes = Label(i) \o buffer')]_vars

\* C4: when the exact termination marker is read from slot i and no send
\* fails, the sender is sent exactly the bytes "OK", as the last send of the
\* step, and slot i is released in the same step: handle out of the watch
\* set, closed, slot empty, live count one less.
C4_AckThenRelease ==
    [][(CommStep /\ ev'.res = "data" /\ buffer' = MSG_C /\ AllOk(sent'))
        => (/\ Acks(sent') = {Len(sent')}
            /\ sent'[Len(sent')].to = i
            /\ sent'[Len(sent')].bytes = ACK_S
            /\ fd' = [fd EXCEPT ![i] = -1]
            /\ afds' = afds \ {fd[i]}
            /\ conn'[fd[i]] = NoConn
            /\ nClient' = nClient - 1)]_vars

\* What holds of C4: the same with the bytes the server sends, "OK" and a NUL
C4_AckWithNul ==
    [][(CommStep /\ ev'.res = "data" /\ buffer' = MSG_C /\ AllOk(sent'))
        => (/\ Acks(sent') = {Len(sent')}
            /\ sent'[Len(sent')].to = i
            /\ sent'[Len(sent')].bytes = ACK_S \o <<0>>
            /\ fd' = [fd EXCEPT ![i] = -1]
            /\ afds' = afds \ {fd[i]}
            /\ conn'[fd[i]] = NoConn
            /\ nClient' = nClient - 1)]_vars

\* C7: a connection left pending because the table was full is accepted,
\* some time after a slot is released, the server being scheduled and accept
\* not failing.  The release is the server's last step: a full table less
\* the slots that step emptied.
Emptied == (IF fd[ev.slot] = -1 THEN 1 ELSE 0)
           + Cardinality({p \in Relays(sent) : sent[p].res \in {"fail", "epipe", "other"}})
LeftPending ==
    /\ ev.op = "comm" /\ pending # <<>>
    /\ Emptied >= 1
    /\ Cardinality(Occupied(fd)) + Emptied = MAXCON
C7_PendingAccepted == LeftPending ~> (ev.op = "accept" /\ ev.res \in {"ok", "err"})

\* C7, the condition its liveness needs: after a slot of a full table is
\* released with a connection pending, the server can take its next step
\* without any help from the clients.  Where this fails the server is blocked
\* (or gone) with the connection still pending, and the behaviour in which
\* no client does anything more is a fair one that never accepts it.
C7_ServerProceeds == LeftPending => ENABLED ServerStep

\* What holds of C7: an accepted connection goes to the lowest empty slot
C7_LowestSlot ==
    [][(AcceptStep /\ ev'.res = "ok")
        => (/\ fd[ev'.slot] = -1 /\ fd'[ev'.slot] # -1
            /\ \A k \in Slots : k < ev'.slot => fd[k] # -1)]_vars

\* C9: the round trip.  From the empty table A's connection gets slot 0 and
\* B's slot 1; "hello\n" read from slot 0 sends "C1: hello\n" to slot 1 and
\* nothing else; "exit\n" read from slot 1 sends "OK" to slot 1 and empties
\* it; "exit\n" then read from slot 0 sends "OK" to slot 0 and empties it.
C1Hello == <<67, 49, 58, 32, 104, 101, 108, 108, 111, 10>>
C9_RoundTrip ==
    [][/\ (AcceptStep /\ ev'.res = "ok" /\ Occupied(fd) = {}) => Occupied(fd') = {0}
       /\ (AcceptStep /\ ev'.res = "ok" /\ Occupied(fd) = {0}) => Occupied(fd') = {0, 1}
       /\ (CommStep /\ Occupied(fd) = {0, 1} /\ i = 0 /\ ev'.res = "data"
             /\ buffer' = Hello /\ AllOk(sent'))
            => (sent' = <<Rec(1, "relay", C1Hello, "ok")>> /\ Occupied(fd') = {0, 1})
       /\ (CommStep /\ Occupied(fd) = {0, 1} /\ i = 1 /\ ev'.res = "data"
             /\ buffer' = MSG_C /\ AllOk(sent'))
            => (/\ \E p \in 1 .. Len(sent') : sent'[p].to = 1
                /\ \A p \in 1 .. Len(sent') : sent'[p].to = 1 => sent'[p].bytes = ACK_S
                /\ Occupied(fd') = {0})
       /\ (CommStep /\ Occupied(fd) = {0} /\ i = 0 /\ ev'.res = "data"
             /\ buffer' = MSG_C /\ AllOk(sent'))
            => (sent' = <<Rec(0, "ack", ACK_S, "ok")>> /\ Occupied(fd') = {})]_vars

\* C10: no failure of a single client ends the server process: in every
\* reachable state the loop is still running.
C10_ServerRunning == pc # "dead"

\* C11: for every payload of 1 to MAXCHR bytes read from slot i, the message
\* sent to each recipient is the label "C<i+1>: " followed by all the bytes
\* of the payload, none dropped and none added.
C11_MessageExact ==
    [][(CommStep /\ ev'.res = "data")
        => \A p \in Relays(sent') : sent'[p].bytes = Label(i) \o buffer']_vars

\* C12: an interrupted readiness wait is retried: right after it the server
\* is at the wait again, not at accept and not at a client slot.
C12_WaitRetried == (ev.op = "select" /\ ev.res = "eintr") => pc = "select"

\* C13: at the start of every readiness wait the watch set is the listening
\* socket and the handles of the occupied slots, no more and no less.
C13_WatchSetExact == pc = "select" => afds = {sockfd} \cup OpenHandles(fd)

\* What holds of C13: the watch set never lacks a handle, and the release in
\* main (the only one with FD_CLR) leaves no closed handle behind.
C13_WatchSetCovers == ({sockfd} \cup OpenHandles(fd)) \subseteq afds

\* C14: after dispatch has removed a recipient whose send failed the server
\* stays live for the others.  The condition that liveness needs: while the
\* removed recipient's handle is the stale one of the watch set, two or more
\* clients remain and one of them has written a payload, the server can take
\* its next step without any help from the clients: it is not blocked in
\* accept, nor in a read on a handle with nothing to deliver.  Where this
\* fails, the behaviour in which no client does anything more is a fair one
\* in which the payload is never read.
WaitingPayload == \E k \in Occupied(fd) : conn[fd[k]].inq # <<>>
C14_LiveAfterRemoval ==
    (/\ Stale # {} /\ pc # "dead"
     /\ Cardinality(Occupied(fd)) >= 2
     /\ WaitingPayload)
        => ENABLED ServerStep

\* the recipients of the last step's relay whose send failed for good, and
\* the sends to recipient k that succeeded
Failing(log) == {log[p].to : p \in {q \in Relays(log) :
                                      log[q].res \in {"fail", "epipe", "other", "sigpipe"}}}
OkSends(log, k) == {p \in Relays(log) : log[p].to = k /\ log[p].res = "ok"}

\* C15: within one relay call from sender i, whatever recipients' sends fail,
\* each failing recipient's slot is released and its handle closed, and every
\* other occupied recipient, below or above the failing ones, is still sent
\* the message exactly once.
C15_RelaySurvivesFailures ==
    [][(CommStep /\ ev'.res = "data" /\ nClient > 1)
        => (/\ \A k \in Failing(sent') : fd'[k] = -1 /\ conn'[fd[k]] = NoConn
            /\ \A k \in (Occupied(fd) \ {i}) \ Failing(sent') :
                  Cardinality(OkSends(sent', k)) = 1)]_vars

\* What holds of C15: the same whenever no send of the call raises SIGPIPE
C15_WhenSendsReturn ==
    [][(CommStep /\ ev'.res = "data" /\ nClient > 1
          /\ \A p \in 1 .. Len(sent') : sent'[p].res # "sigpipe")
        => (/\ \A k \in Failing(sent') : fd'[k] = -1 /\ conn'[fd[k]] = NoConn
            /\ \A k \in (Occupied(fd) \ {i}) \ Failing(sent') :
                  Cardinality(OkSends(sent', k)) = 1
            /\ \A p \in Relays(sent') : sent'[p].to \in Occupied(fd) \ {i})]_vars

\* the results of the sends of the last step's relay to recipient k, in order
RECURSIVE Attempts(_, _)
Attempts(log, k) ==
    IF log = <<>> THEN <<>>
    ELSE IF Head(log).kind = "relay" /\ Head(log).to = k
         THEN <<Head(log).res>> \o Attempts(Tail(log), k)
         ELSE Attempts(Tail(log), k)

\* C16: a relay send that fails with an interruption is attempted exactly
\* once more; if the retry succeeds the recipient stays connected, if it
\* fails the recipient's slot is released; no recipient sees more than two
\* attempts in one relay call, and a failure that is not an interruption is
\* not retried.
C16_RetryOnce ==
    [][(CommStep /\ ev'.res = "data")
        => \A k \in Slots \ {i} :
             \E a \in {Attempts(sent', k)} :
               /\ Len(a) <= 2
               /\ (Len(a) >= 1 /\ a[1] = "eintr") => Len(a) = 2
               /\ (Len(a) >= 1 /\ a[1] # "eintr") => Len(a) = 1
               /\ (Len(a) = 2 /\ a[2] = "ok")
                     => fd'[k] = fd[k] /\ conn'[fd[k]].peer = conn[fd[k]].peer
               /\ (Len(a) = 2 /\ a[2] # "ok") => fd'[k] = -1]_vars

\* What holds of C16: the same, a retry that raises SIGPIPE apart
C16_RetryOnceReturned ==
    [][(CommStep /\ ev'.res = "data")
        => \A k \in Slots \ {i} :
             \E a \in {Attempts(sent', k)} :
               /\ Len(a) <= 2
               /\ (Len(a) >= 1 /\ a[1] = "eintr") => Len(a) = 2
               /\ (Len(a) >= 1 /\ a[1] # "eintr") => Len(a) = 1
               /\ (Len(a) = 2 /\ a[2] = "ok")
                     => fd'[k] = fd[k] /\ conn'[fd[k]].peer = conn[fd[k]].peer
               /\ (Len(a) = 2 /\ a[2] \notin {"ok", "sigpipe"}) => fd'[k] = -1
               /\ (Len(a) = 2 /\ a[2] = "sigpipe") => pc' = "dead"]_vars

\* C17: when the termination marker is read from slot i and the send of the
\* acknowledgement fails, for whatever reason, slot i is still released in
\* that step, and the acknowledgement was attempted once and not retried.
C17_AckBestEffort ==
    [][(CommStep /\ ev'.res = "data"
          /\ \E q \in Acks(sent') : sent'[q].res # "ok")
        => (/\ Cardinality(Acks(sent')) = 1
            /\ fd'[i] = -1
            /\ fd[i] \notin afds'
            /\ conn'[fd[i]] = NoConn)]_vars

\* What holds of C17: the same for every failure that send returns
C17_WhenAckReturns ==
    [][(CommStep /\ ev'.res = "data"
          /\ \E q \in Acks(sent') : sent'[q].res \notin {"ok", "sigpipe"})
        => (/\ Cardinality(Acks(sent')) = 1
            /\ IsExit(buffer')
            /\ fd'[i] = -1
            /\ fd[i] \notin afds'
            /\ conn'[fd[i]] = NoConn)]_vars

\* C18: a read on slot i that fails with an error other than an interruption
\* releases slot i with no relay and no acknowledgement; a read interrupted
\* by a signal is retried and by itself releases nothing, relays nothing and
\* ends nothing: the step does what the retried read's result calls for
\* (waiting bytes are read into the buffer and the slot is kept unless they
\* begin with the termination marker).
C18_ReadErrors ==
    [][/\ (CommStep /\ ev'.res = "err")
            => (/\ sent' = <<>>
                /\ fd' = [fd EXCEPT ![i] = -1]
                /\ afds' = afds \ {fd[i]}
                /\ nClient' = nClient - 1)
       /\ (CommStep /\ ev'.intr > 0 /\ conn[fd[i]].inq # <<>>)
            => (/\ ev'.res = "data"
                /\ buffer' = Take(conn[fd[i]].inq, MAXCHR)
                /\ ~IsExit(buffer') => fd'[i] = fd[i])
       /\ (CommStep /\ ev'.intr > 0 /\ conn[fd[i]].inq = <<>>)
            => (ev'.res \in {"eof", "err"} /\ sent' = <<>>)]_vars

\* C18's case: a read was interrupted, retried, and the retry failed with an
\* error: the slot is released, the other client is sent nothing
C18_Witness ==
    /\ ev.op = "comm" /\ ev.res = "err" /\ ev.intr = 1
    /\ fd[ev.slot] = -1
    /\ nClient >= 1
    /\ sent = <<>>

\* C19: the free-slot search returns the lowest index whose slot is empty
\* and -1 exactly when all MAXCON slots are occupied; so the new-connection
\* step finds the table full exactly then, and an accepted connection is put
\* in the lowest empty slot and in no other.
C19_LowestEmpty ==
    [][/\ \A oob \in OobValues :
            freeConnections(fd, oob) =
                IF Occupied(fd) = Slots THEN -1 ELSE Min(Slots \ Occupied(fd))
       /\ AcceptStep
            => (/\ ev'.res = "full" <=> Occupied(fd) = Slots
                /\ ev'.res # "full" => ev'.slot = Min(Slots \ Occupied(fd))
                /\ ev'.res = "ok"
                     => (/\ fd'[ev'.slot] > -1
                         /\ \A k \in Slots \ {ev'.slot} : fd'[k] = fd[k]))]_vars

\* C19's case: a connection was accepted into a slot released in the middle
\* of the table, the slots below it and the slot above it being occupied
C19_Witness ==
    /\ ev.op = "accept" /\ ev.res = "ok"
    /\ ev.slot \in 1 .. (MAXCON - 2)
    /\ fd[ev.slot] > -1 /\ fd[ev.slot + 1] > -1
    /\ \A k \in 0 .. (ev.slot - 1) : fd[k] > -1

\* the slots main's loop would act on: occupied, their handle set in rfds
ReadySlot(k) == fd[k] > -1 /\ fd[k] \in rfds
\* the slot of the read before, in the same iteration; -1 when there is none
PrevSlot == IF ev.op = "comm" THEN ev.slot ELSE -1

\* C20: within one iteration the listening socket is handled before any
\* client slot, and the ready slots are read in ascending index, none being
\* passed over: the new-connection step comes right after the wait, a read
\* is of a ready slot above the one read before it with no ready slot in
\* between, and the next wait begins only when no ready slot is left above.
\* The relays of a read carry its slot's label, so every recipient is sent
\* the lower-indexed sender's message before the higher-indexed sender's.
C20_LoopOrder ==
    [][/\ (ev' # ev /\ ev'.op = "accept") => ev.op = "select"
       /\ (ev' # ev /\ ev'.op = "comm")
            => (/\ ev.op \in {"select", "accept", "comm"}
                /\ ev'.slot > PrevSlot
                /\ ReadySlot(ev'.slot)
                /\ \A k \in Slots : (PrevSlot < k /\ k < ev'.slot) => ~ReadySlot(k)
                /\ \A p \in Relays(sent') :
                      Take(sent'[p].bytes, Len(Label(ev'.slot))) = Label(ev'.slot))
       /\ (ev' # ev /\ ev'.op = "select")
            => \A k \in Slots : PrevSlot < k => ~ReadySlot(k)]_vars

\* C20's case: slots 0 and 1 were both ready in one iteration; slot 0 was
\* read first and now slot 1, each relayed to the third client
C20_Witness ==
    /\ ev.op = "comm" /\ ev.slot = 1 /\ ev.res = "data"
    /\ fd[0] > -1 /\ fd[1] > -1 /\ fd[2] > -1
    /\ {fd[0], fd[1]} \subseteq rfds
    /\ conn[fd[0]].inq = <<>> /\ conn[fd[0]].got
    /\ left = 0
    /\ \E p \in Relays(sent) : sent[p].to = 2 /\ sent[p].res = "ok"

\* ------------------------------------------------------------ C21
Increasing(q) == \A a, b \in 1 .. Len(q) : a < b => q[a] < q[b]
DataStep == CommStep /\ ev'.res = "data"

\* C21: relay preserves order.  The server numbers the payloads in the order
\* it reads them; every relay of a read carries that read's payload under
\* the reader's label, a recipient it reaches has the read's number appended
\* to what it was sent, and nothing else adds to what a connection was sent:
\* so every connection is sent messages in increasing order of their reads,
\* which is the order of each sender's payloads and the same relative order
\* for the messages two recipients have in common.
C21_RelayInOrder ==
    [][/\ \A h \in Handles :
            /\ Increasing(conn'[h].rcv)
            /\ \A a \in 1 .. Len(conn'[h].rcv) : conn'[h].rcv[a] \in 1 .. ev'.n
       /\ DataStep =>
            /\ ev'.n = ev.n + 1
            /\ \A p \in Relays(sent') :
                 /\ sent'[p].bytes = Take(Label(i) \o buffer', MAXCHR - 1)
                 /\ sent'[p].res = "ok" =>
                      conn'[fd[sent'[p].to]].rcv = Append(conn[fd[sent'[p].to]].rcv, ev'.n)
            /\ \A k \in Occupied(fd) :
                 (\A p \in Relays(sent') : sent'[p].to = k => sent'[p].res # "ok")
                     => conn'[fd[k]].rcv \in {conn[fd[k]].rcv, <<>>}
       /\ ~DataStep =>
            /\ ev'.n = ev.n
            /\ \A h \in Handles : conn'[h].rcv \in {conn[h].rcv, <<>>}]_vars

\* two connections have each been sent the messages of two reads
C21_Witness ==
    /\ ev.op = "comm" /\ ev.res = "data" /\ ev.n >= 2
    /\ \E h, g \in Handles :
         /\ h # g
         /\ Len(conn[h].rcv) >= 2 /\ Len(conn[g].rcv) >= 2
         /\ conn[h].rcv[Len(conn[h].rcv)] = ev.n
         /\ conn[g].rcv[Len(conn[g].rcv)] = ev.n

\* ------------------------------------------------------------ C22
\* C22: no slot is released while it is empty and no handle is closed twice.
\* The slot a step reads is occupied by an open handle; every close() of the
\* step is given the handle an occupied slot held, open at that moment, and
\* empties that slot; no slot and no handle is closed twice in the step; the
\* slots dispatch empties are other than the one being read, whose release,
\* if any, is the step's last close; and a slot is emptied by a close only.
C22_ReleaseOccupied ==
    [][CommStep =>
        LET c == ev'.closed
        IN  /\ fd[i] \in Handles /\ conn[fd[i]].peer # "none"
            /\ \A p \in 1 .. Len(c) :
                 /\ c[p].h > -1 /\ c[p].open
                 /\ fd[c[p].slot] = c[p].h
                 /\ fd'[c[p].slot] = -1
                 /\ c[p].slot = i => p = Len(c)
                 /\ \A q \in 1 .. Len(c) :
                      p # q => c[p].slot # c[q].slot /\ c[p].h # c[q].h
            /\ \A k \in Slots :
                 fd'[k] # fd[k] => fd'[k] = -1 /\ \E p \in 1 .. Len(c) : c[p].slot = k]_vars

\* dispatch has emptied a later slot that was set in rfds, the loop has gone
\* past it, and main has then released the slot it read
C22_Witness ==
    /\ ev.op = "comm" /\ Len(ev.closed) = 2
    /\ ev.closed[1].slot > ev.slot /\ ev.closed[1].h \in rfds
    /\ ev.closed[2].slot = ev.slot
    /\ fd[ev.slot] = -1
    /\ pc = "select"

\* ------------------------------------------------------------ C23
BeginsWithMarker(b) ==
    Len(b) >= Len(MSG_C) /\ \A p \in 1 .. Len(MSG_C) : b[p] = MSG_C[p]

\* C23: a payload read is treated as the termination marker exactly when it
\* begins with the five bytes "exit\n".  In a step that reads a payload and
\* whose relay does not end the process, the acknowledgement is sent exactly
\* when the payload begins with the marker, and the slot is then released;
\* bytes after the marker do not prevent it; a payload in another case,
\* without the newline or with a byte before the marker gets no
\* acknowledgement, keeps its slot and is relayed under the sender's label.
C23_MarkerByPrefix ==
    [][DataStep =>
        LET b == buffer'
            died == \E p \in Relays(sent') : sent'[p].res = "sigpipe"
            treated == Acks(sent') # {}
        IN  /\ ~died => (treated <=> BeginsWithMarker(b))
            /\ treated => \A p \in Acks(sent') : sent'[p].to = i /\ p = Len(sent')
            /\ (treated /\ pc' # "dead") => fd'[i] = -1
            /\ (b \in {MSG_C, ExitTrailing} /\ ~died) => treated
            /\ b \in {ExitUpper, ExitNoNewline, ExitAfter} => ~treated
            /\ ~treated =>
                 /\ died \/ fd'[i] = fd[i]
                 /\ nClient > 1 =>
                      /\ Relays(sent') # {}
                      /\ \A p \in Relays(sent') :
                           sent'[p].bytes = Take(Label(i) \o b, MAXCHR - 1)]_vars

\* the marker followed by another byte has been read, acknowledged and the
\* slot released
C23_Witness ==
    /\ ev.op = "comm" /\ ev.res = "data"
    /\ buffer = ExitTrailing
    /\ Acks(sent) # {}
    /\ fd[ev.slot] = -1

\* ------------------------------------------------------------ C24
\* C24: when slot i sends the termination marker while other clients are
\* connected, the payload is relayed like any other, then the acknowledgement
\* is sent, then the slot is released.  In such a step every relay carries
\* the sender's label and the payload ("C<i+1>: exit\n" for the bare marker)
\* and comes before the acknowledgement; the release of slot i is the last
\* close and follows every send; and unless a send ends the process, every
\* other occupied slot is sent the relay, the acknowledgement is the one last
\* send, to slot i, and the slot is released.
C24_ExitOrder ==
    [][(DataStep /\ BeginsWithMarker(buffer') /\ nClient > 1) =>
        LET c == ev'.closed
        IN  /\ \A p \in Relays(sent') :
                 /\ sent'[p].to # i /\ sent'[p].to \in Occupied(fd)
                 /\ sent'[p].bytes = Take(Label(i) \o buffer', MAXCHR - 1)
                 /\ buffer' = MSG_C => sent'[p].bytes = Label(i) \o MSG_C
                 /\ \A q \in Acks(sent') : p < q
            /\ \A q \in Acks(sent') : sent'[q].to = i /\ q = Len(sent')
            /\ \A p \in 1 .. Len(c) :
                 c[p].slot = i => p = Len(c) /\ c[p].after = Len(sent') /\ Acks(sent') # {}
            /\ pc' # "dead" =>
                 /\ \A k \in Occupied(fd) \ {i} : \E p \in Relays(sent') : sent'[p].to = k
                 /\ Cardinality(Acks(sent')) = 1
                 /\ fd'[i] = -1
                 /\ \E p \in 1 .. Len(c) : c[p].slot = i]_vars

\* slot 1 has sent the bare marker with slots 0 and 2 connected: two relays,
\* the acknowledgement, the release
C24_Witness ==
    /\ ev.op = "comm" /\ ev.res = "data" /\ ev.slot = 1
    /\ buffer = MSG_C
    /\ Len(sent) = 3 /\ AllOk(sent)
    /\ sent[1] = Rec(0, "relay", Label(1) \o MSG_C, "ok")
    /\ sent[2] = Rec(2, "relay", Label(1) \o MSG_C, "ok")
    /\ sent[3].kind = "ack" /\ sent[3].to = 1
    /\ Len(ev.closed) = 1 /\ ev.closed[1].slot = 1 /\ ev.closed[1].after = 3
    /\ fd[1] = -1 /\ fd[0] > -1 /\ fd[2] > -1

\* ------------------------------------------------------------ C25
\* C25: a slot holds at most one live handle and a connection stays in the
\* slot it was accepted into until it is released.  After every step no two
\* occupied slots hold the same handle; a step leaves an occupied slot as it
\* is or empties it, and puts its handle in no other slot; a slot is filled
\* only by accept, that slot being the one the scan returned and the handle
\* one no slot held; and every relay of a payload read from slot i begins
\* with "C<i+1>: ".
C25_SlotsStable ==
    [][/\ \A j, k \in Slots : (j # k /\ fd'[j] > -1) => fd'[j] # fd'[k]
       /\ \A k \in Occupied(fd) :
            /\ fd'[k] \in {fd[k], -1}
            /\ \A j \in Slots \ {k} : fd'[j] # fd[k]
       /\ \A k \in Slots \ Occupied(fd) :
            fd'[k] > -1 =>
                /\ AcceptStep /\ ev'.res = "ok" /\ ev'.slot = k
                /\ fd'[k] \notin OpenHandles(fd)
                /\ conn[fd'[k]].peer = "none"
       /\ DataStep =>
            \A p \in Relays(sent') :
                Take(sent'[p].bytes, Len(Label(i))) = Label(i)]_vars

\* slot 0 was released and is filled again by accept while the connection
\* accepted into slot 1 is still in slot 1
C25_Witness ==
    /\ ev.op = "accept" /\ ev.res = "ok" /\ ev.slot = 0
    /\ fd[0] > -1 /\ fd[1] > -1
    /\ conn[fd[1]].peer # "none"

\* ------------------------------------------------------------ C26
\* C26: the free-slot scan only ever reads slot indices in [0, MAXCON): in
\* every call main makes, whatever the table holds, the scan evaluates fd[x]
\* for x in 0 .. MAXCON - 1 only.
C26_ScanInBounds ==
    [][AcceptStep => \A oob \in OobValues : ScanReads(fd, oob, 0) \subseteq Slots]_vars

\* What holds of C26: the scan reads the indices from 0 up to the one it
\* stops at and none past MAXCON; it reads index MAXCON exactly when every
\* slot is occupied; and its answer does not depend on the value read there.
C26_ScanOnePast ==
    [][AcceptStep =>
        \A oob \in OobValues :
            /\ ScanReads(fd, oob, 0) = 0 .. FreeScan(fd, oob, 0)
            /\ ScanReads(fd, oob, 0) \subseteq 0 .. MAXCON
            /\ MAXCON \in ScanReads(fd, oob, 0) <=> Occupied(fd) = Slots
            /\ freeConnections(fd, oob) = freeConnections(fd, -1)]_vars


====
